---- MODULE Spec2Model ----
(***************************************************************************)
(* Model of src/tone_processor.py (ToneClipProcessor): the silence         *)
(* pairing, speech inversion, padding and segment-count fitting stages.    *)
(*                                                                         *)
(* Times are integers in milliseconds (the source uses float seconds):     *)
(* 0.05 s = 50, 1e-3 s = 1, MERGE_GAPS_SECONDS = 60, 70, ..., 300.         *)
(* An interval is the pair <<start, end>>, as the source's 2-tuples.       *)
(***************************************************************************)
EXTENDS Integers, Sequences, FiniteSets, TLC

VARIABLES
    pc,               \* position of the run: which step executes next
    error,            \* tag of the RuntimeError raised, "" while none
    starts,           \* _pair_silences: starts argument
    ends,             \* _pair_silences: ends argument
    duration,         \* duration argument (probed media length)
    events,           \* _pair_silences: sorted event list
    evIdx,            \* _pair_silences: number of events swept so far
    current_start,    \* _pair_silences: open start, None when no start is open
    silences,         \* silence intervals
    speech_segments,  \* speech intervals
    pad,              \* config.detect.pad
    padded,           \* padded speech intervals
    segments,         \* _fit_segments_to_target: segments argument
    target,           \* config.clips.count
    ordered,          \* _fit_segments_to_target: ordered
    best,             \* _fit_segments_to_target: best
    gapIdx,           \* number of merge passes run (thresholds consumed)
    fitted,           \* run: fitted_segments
    exports,          \* _export_segments: exports
    log,              \* _parse_silence_log: the lines of the log argument
    lineIdx,          \* _parse_silence_log: number of lines read so far
    config,           \* per run: its ProcessorConfig
    rpc,              \* per run: position of run()
    rerror,           \* per run: tag of the error raised, "" while none
    rexports,         \* per run: paths of the clips exported so far
    calls,            \* per run: the external tool invocations made, in order
    fs,               \* the paths that exist on disk
    written,          \* per run: the paths the run has written
    clashes           \* accesses of a run to a path the other run had written

vars == <<pc, error, starts, ends, duration, events, evIdx, current_start,
          silences, speech_segments, pad, padded, segments, target, ordered,
          best, gapIdx, fitted, exports, log, lineIdx, config, rpc, rerror,
          rexports, calls, fs, written, clashes>>

detectVars == <<starts, ends, duration, events, evIdx, current_start,
                silences, speech_segments, pad, padded>>

fitVars == <<segments, target, ordered, best, gapIdx, fitted>>

parseVars == <<log, lineIdx>>

runsVars == <<config, rpc, rerror, rexports, calls, fs, written, clashes>>

singleVars == <<pc, error, exports, detectVars, fitVars, parseVars>>

-----------------------------------------------------------------------------
(* Program constants *)

MIN_SEGMENT_DURATION == 50

EPSILON == 1

MergeGapsFromZero == [i \in 1..31 |-> 10 * (i - 1)]

MERGE_GAPS_SECONDS == [i \in 1..25 |-> 60 + 10 * (i - 1)]

None == -1

-----------------------------------------------------------------------------
(* Bounds of the model and the input sets *)

MaxSegs == 3

MaxTarget == 5

LenChoices == {50, 200}

GapChoices == {-50, 40, 60, 65, 300, 310}

-----------------------------------------------------------------------------
(* Helpers *)

Max(a, b) == IF a >= b THEN a ELSE b

Min(a, b) == IF a <= b THEN a ELSE b

Reverse(s) == [i \in 1..Len(s) |-> s[Len(s) + 1 - i]]

RECURSIVE InsertByKey(_, _, _)
InsertByKey(x, s, k) ==
    IF s = <<>> THEN <<x>>
    ELSE IF x[k] < Head(s)[k] THEN <<x>> \o s
    ELSE <<Head(s)>> \o InsertByKey(x, Tail(s), k)

\* Python's stable sort on key item[k-1]
RECURSIVE SortedByKey(_, _)
SortedByKey(s, k) ==
    IF s = <<>> THEN <<>>
    ELSE InsertByKey(s[Len(s)], SortedByKey(SubSeq(s, 1, Len(s) - 1), k), k)

-----------------------------------------------------------------------------
(* _merge_adjacent *)

RECURSIVE MergeFrom(_, _, _)

\* a gap equal to the threshold is not merged
MergeFromStrictTest(merged, rest, gap_size) ==
    IF rest = <<>> THEN merged
    ELSE LET start == Head(rest)[1]
             end == Head(rest)[2]
             last_start == merged[Len(merged)][1]
             last_end == merged[Len(merged)][2]
         IN IF start - last_end < gap_size
            THEN MergeFrom([merged EXCEPT ![Len(merged)] =
                               <<last_start, Max(last_end, end)>>],
                           Tail(rest), gap_size)
            ELSE MergeFrom(Append(merged, <<start, end>>), Tail(rest), gap_size)

\* the merged interval is appended instead of replacing the last one
MergeFromAppending(merged, rest, gap_size) ==
    IF rest = <<>> THEN merged
    ELSE LET start == Head(rest)[1]
             end == Head(rest)[2]
             last_start == merged[Len(merged)][1]
             last_end == merged[Len(merged)][2]
         IN IF start - last_end <= gap_size
            THEN MergeFrom(Append(merged, <<last_start, Max(last_end, end)>>),
                           Tail(rest), gap_size)
            ELSE MergeFrom(Append(merged, <<start, end>>), Tail(rest), gap_size)

\* the gap comparison is reversed
MergeFromReversedTest(merged, rest, gap_size) ==
    IF rest = <<>> THEN merged
    ELSE LET start == Head(rest)[1]
             end == Head(rest)[2]
             last_start == merged[Len(merged)][1]
             last_end == merged[Len(merged)][2]
         IN IF start - last_end >= gap_size
            THEN MergeFrom([merged EXCEPT ![Len(merged)] =
                               <<last_start, Max(last_end, end)>>],
                           Tail(rest), gap_size)
            ELSE MergeFrom(Append(merged, <<start, end>>), Tail(rest), gap_size)

MergeFrom(merged, rest, gap_size) ==
    IF rest = <<>> THEN merged
    ELSE LET start == Head(rest)[1]
             end == Head(rest)[2]
             last_start == merged[Len(merged)][1]
             last_end == merged[Len(merged)][2]
         IN IF start - last_end <= gap_size
            THEN MergeFrom([merged EXCEPT ![Len(merged)] =
                               <<last_start, Max(last_end, end)>>],
                           Tail(rest), gap_size)
            ELSE MergeFrom(Append(merged, <<start, end>>), Tail(rest), gap_size)

MergeAdjacent(segs, gap_size) == MergeFrom(<<segs[1]>>, Tail(segs), gap_size)

-----------------------------------------------------------------------------
(* _fit_segments_to_target *)

\* sorts descending
SortByStartDescending(segs) == Reverse(SortedByKey(Reverse(segs), 1))

SortByStart(segs) == SortedByKey(segs, 1)

\* keeps one interval too many
TruncateOneMore(segs, n) == SubSeq(segs, 1, Min(n + 1, Len(segs)))

\* keeps the last n intervals instead of the first n
TruncateKeepingLast(segs, n) == SubSeq(segs, Len(segs) - n + 1, Len(segs))

Truncate(segs, n) == SubSeq(segs, 1, n)

Fail(tag) ==
    /\ pc' = "failed"
    /\ error' = tag

\* the too-few-segments test is missing
FitEnterWithoutCountTest ==
    /\ pc = "fit"
    /\ IF segments = <<>>
       THEN /\ Fail("NoSegmentsAvailable")
            /\ UNCHANGED <<ordered, best, gapIdx, fitted>>
       ELSE LET ord == SortedByKey(segments, 1)
            IN /\ ordered' = ord
               /\ IF Len(ord) = target
                  THEN /\ fitted' = ord
                       /\ pc' = "export"
                       /\ UNCHANGED <<error, best, gapIdx>>
                  ELSE /\ best' = ord
                       /\ pc' = "merge"
                       /\ UNCHANGED <<error, gapIdx, fitted>>
    /\ UNCHANGED <<segments, target, exports>>
    /\ UNCHANGED detectVars
    /\ UNCHANGED <<parseVars, runsVars>>

FitEnter ==
    /\ pc = "fit"
    /\ IF segments = <<>>
       THEN /\ Fail("NoSegmentsAvailable")
            /\ UNCHANGED <<ordered, best, gapIdx, fitted>>
       ELSE LET ord == SortByStart(segments)
            IN /\ ordered' = ord
               /\ IF Len(ord) = target
                  THEN /\ fitted' = ord
                       /\ pc' = "export"
                       /\ UNCHANGED <<error, best, gapIdx>>
                  ELSE IF Len(ord) < target
                  THEN /\ Fail("DetectedOnly")
                       /\ UNCHANGED <<best, gapIdx, fitted>>
                  ELSE /\ best' = ord
                       /\ pc' = "merge"
                       /\ UNCHANGED <<error, gapIdx, fitted>>
    /\ UNCHANGED <<segments, target, exports>>
    /\ UNCHANGED detectVars
    /\ UNCHANGED <<parseVars, runsVars>>

\* the loop does not break at the first threshold that reaches the target
FitMergePassWithoutBreak ==
    /\ pc = "merge"
    /\ gapIdx < Len(MERGE_GAPS_SECONDS)
    /\ LET merged == MergeAdjacent(best, MERGE_GAPS_SECONDS[gapIdx + 1])
       IN /\ best' = merged
          /\ gapIdx' = gapIdx + 1
          /\ pc' = IF gapIdx + 1 = Len(MERGE_GAPS_SECONDS)
                   THEN "trim" ELSE "merge"
    /\ UNCHANGED <<error, segments, target, ordered, fitted, exports>>
    /\ UNCHANGED detectVars
    /\ UNCHANGED <<parseVars, runsVars>>

FitMergePass ==
    /\ pc = "merge"
    /\ gapIdx < Len(MERGE_GAPS_SECONDS)
    /\ LET merged == MergeAdjacent(best, MERGE_GAPS_SECONDS[gapIdx + 1])
       IN /\ best' = merged
          /\ gapIdx' = gapIdx + 1
          /\ pc' = IF Len(merged) <= target \/ gapIdx + 1 = Len(MERGE_GAPS_SECONDS)
                   THEN "trim" ELSE "merge"
    /\ UNCHANGED <<error, segments, target, ordered, fitted, exports>>
    /\ UNCHANGED detectVars
    /\ UNCHANGED <<parseVars, runsVars>>

\* an overshooting merge falls back to the first intervals of the input
FitFinishFallingBack ==
    /\ pc = "trim"
    /\ LET cut == IF Len(best) > target THEN Truncate(best, target) ELSE best
           res == IF Len(cut) < target THEN Truncate(ordered, target) ELSE cut
       IN /\ best' = res
          /\ fitted' = res
          /\ pc' = "export"
          /\ UNCHANGED error
    /\ UNCHANGED <<segments, target, ordered, gapIdx, exports>>
    /\ UNCHANGED detectVars
    /\ UNCHANGED <<parseVars, runsVars>>

\* the final count test is missing: a shorter sequence is returned
FitFinishWithoutCountTest ==
    /\ pc = "trim"
    /\ LET cut == IF Len(best) > target THEN SubSeq(best, 1, target) ELSE best
       IN /\ best' = cut
          /\ fitted' = cut
          /\ pc' = "export"
          /\ UNCHANGED error
    /\ UNCHANGED <<segments, target, ordered, gapIdx, exports>>
    /\ UNCHANGED detectVars
    /\ UNCHANGED <<parseVars, runsVars>>

FitFinish ==
    /\ pc = "trim"
    /\ LET cut == IF Len(best) > target THEN Truncate(best, target) ELSE best
       IN /\ best' = cut
          /\ IF Len(cut) < target
             THEN /\ Fail("UnableToReduce")
                  /\ UNCHANGED fitted
             ELSE /\ fitted' = cut
                  /\ pc' = "export"
                  /\ UNCHANGED error
    /\ UNCHANGED <<segments, target, ordered, gapIdx, exports>>
    /\ UNCHANGED detectVars
    /\ UNCHANGED <<parseVars, runsVars>>

-----------------------------------------------------------------------------
(* _export_segments, called by run once the fitter has returned *)

ExportClip ==
    /\ pc = "export"
    /\ Len(exports) < Len(fitted)
    /\ LET idx == Len(exports) + 1
       IN \E returncode \in {0, 1} :
            IF returncode # 0
            THEN /\ Fail("CommandFailed")
                 /\ UNCHANGED exports
            ELSE /\ exports' = Append(exports,
                        [name |-> idx, start |-> fitted[idx][1],
                         end |-> fitted[idx][2],
                         duration |-> fitted[idx][2] - fitted[idx][1]])
                 /\ UNCHANGED <<pc, error>>
    /\ UNCHANGED fitVars
    /\ UNCHANGED detectVars
    /\ UNCHANGED <<parseVars, runsVars>>

ExportReturn ==
    /\ pc = "export"
    /\ Len(exports) = Len(fitted)
    /\ pc' = "combine"
    /\ UNCHANGED <<error, exports>>
    /\ UNCHANGED fitVars
    /\ UNCHANGED detectVars
    /\ UNCHANGED <<parseVars, runsVars>>

-----------------------------------------------------------------------------
(* _pair_silences *)

TagEvents(kind, values) == [i \in 1..Len(values) |-> <<kind, values[i]>>]

SortByTimestamp(evs) == SortedByKey(evs, 2)

PairBegin ==
    /\ pc = "pair"
    /\ events' = SortByTimestamp(TagEvents("start", starts) \o TagEvents("end", ends))
    /\ evIdx' = 0
    /\ silences' = <<>>
    /\ current_start' = None
    /\ pc' = "sweep"
    /\ UNCHANGED <<error, starts, ends, duration, speech_segments, pad, padded, exports>>
    /\ UNCHANGED fitVars
    /\ UNCHANGED <<parseVars, runsVars>>

\* a later START replaces the open start
SweepStartKeepingLatest ==
    /\ pc = "sweep"
    /\ evIdx < Len(events)
    /\ events[evIdx + 1][1] = "start"
    /\ current_start' = events[evIdx + 1][2]
    /\ evIdx' = evIdx + 1
    /\ UNCHANGED <<pc, error, starts, ends, duration, events, silences,
                   speech_segments, pad, padded, exports>>
    /\ UNCHANGED fitVars
    /\ UNCHANGED <<parseVars, runsVars>>

SweepStart ==
    /\ pc = "sweep"
    /\ evIdx < Len(events)
    /\ events[evIdx + 1][1] = "start"
    /\ current_start' = IF current_start = None THEN events[evIdx + 1][2]
                        ELSE current_start
    /\ evIdx' = evIdx + 1
    /\ UNCHANGED <<pc, error, starts, ends, duration, events, silences,
                   speech_segments, pad, padded, exports>>
    /\ UNCHANGED fitVars
    /\ UNCHANGED <<parseVars, runsVars>>

\* an END met with no start open is dropped
SweepEndDroppingDangling ==
    /\ pc = "sweep"
    /\ evIdx < Len(events)
    /\ events[evIdx + 1][1] = "end"
    /\ silences' = IF current_start = None THEN silences
                   ELSE Append(silences, <<current_start, events[evIdx + 1][2]>>)
    /\ current_start' = None
    /\ evIdx' = evIdx + 1
    /\ UNCHANGED <<pc, error, starts, ends, duration, events,
                   speech_segments, pad, padded, exports>>
    /\ UNCHANGED fitVars
    /\ UNCHANGED <<parseVars, runsVars>>

\* every interval is taken to start at 0
SweepEndStartingAtZero ==
    /\ pc = "sweep"
    /\ evIdx < Len(events)
    /\ events[evIdx + 1][1] = "end"
    /\ silences' = Append(silences, <<0, events[evIdx + 1][2]>>)
    /\ current_start' = None
    /\ evIdx' = evIdx + 1
    /\ UNCHANGED <<pc, error, starts, ends, duration, events,
                   speech_segments, pad, padded, exports>>
    /\ UNCHANGED fitVars
    /\ UNCHANGED <<parseVars, runsVars>>

\* the open start is not cleared when an interval is closed
SweepEndKeepingOpen ==
    /\ pc = "sweep"
    /\ evIdx < Len(events)
    /\ events[evIdx + 1][1] = "end"
    /\ silences' = Append(silences,
                      <<IF current_start = None THEN 0 ELSE current_start,
                        events[evIdx + 1][2]>>)
    /\ current_start' = current_start
    /\ evIdx' = evIdx + 1
    /\ UNCHANGED <<pc, error, starts, ends, duration, events,
                   speech_segments, pad, padded, exports>>
    /\ UNCHANGED fitVars
    /\ UNCHANGED <<parseVars, runsVars>>

SweepEnd ==
    /\ pc = "sweep"
    /\ evIdx < Len(events)
    /\ events[evIdx + 1][1] = "end"
    /\ silences' = Append(silences,
                      <<IF current_start = None THEN 0 ELSE current_start,
                        events[evIdx + 1][2]>>)
    /\ current_start' = None
    /\ evIdx' = evIdx + 1
    /\ UNCHANGED <<pc, error, starts, ends, duration, events,
                   speech_segments, pad, padded, exports>>
    /\ UNCHANGED fitVars
    /\ UNCHANGED <<parseVars, runsVars>>

\* a start left open by the sweep is dropped
PairCloseDroppingOpen ==
    /\ pc = "sweep"
    /\ evIdx = Len(events)
    /\ silences' = silences
    /\ pc' = "speech"
    /\ UNCHANGED <<error, starts, ends, duration, events, evIdx, current_start,
                   speech_segments, pad, padded, exports>>
    /\ UNCHANGED fitVars
    /\ UNCHANGED <<parseVars, runsVars>>

PairClose ==
    /\ pc = "sweep"
    /\ evIdx = Len(events)
    /\ silences' = IF current_start # None
                   THEN Append(silences, <<current_start, duration>>)
                   ELSE silences
    /\ pc' = "speech"
    /\ UNCHANGED <<error, starts, ends, duration, events, evIdx, current_start,
                   speech_segments, pad, padded, exports>>
    /\ UNCHANGED fitVars
    /\ UNCHANGED <<parseVars, runsVars>>

-----------------------------------------------------------------------------
(* _silences_to_speech *)

RECURSIVE SpeechFrom(_, _, _)

\* a gap of exactly epsilon is emitted
SpeechFromInclusiveTest(sil, previous_end, dur) ==
    IF sil = <<>>
    THEN IF dur - previous_end >= EPSILON
         THEN <<<<previous_end, dur>>>> ELSE <<>>
    ELSE LET start == Head(sil)[1]
             end == Head(sil)[2]
         IN (IF start - previous_end >= EPSILON
             THEN <<<<previous_end, start>>>> ELSE <<>>)
            \o SpeechFrom(Tail(sil), end, dur)

\* the trailing speech segment is never emitted
SpeechFromWithoutTrailing(sil, previous_end, dur) ==
    IF sil = <<>> THEN <<>>
    ELSE LET start == Head(sil)[1]
             end == Head(sil)[2]
         IN (IF start - previous_end > EPSILON
             THEN <<<<previous_end, start>>>> ELSE <<>>)
            \o SpeechFrom(Tail(sil), end, dur)

\* previous_end advances to the silence's start instead of its end
SpeechFromNotAdvancing(sil, previous_end, dur) ==
    IF sil = <<>>
    THEN IF dur - previous_end > EPSILON
         THEN <<<<previous_end, dur>>>> ELSE <<>>
    ELSE LET start == Head(sil)[1]
             end == Head(sil)[2]
         IN (IF start - previous_end > EPSILON
             THEN <<<<previous_end, start>>>> ELSE <<>>)
            \o SpeechFrom(Tail(sil), start, dur)

SpeechFrom(sil, previous_end, dur) ==
    IF sil = <<>>
    THEN IF dur - previous_end > EPSILON
         THEN <<<<previous_end, dur>>>> ELSE <<>>
    ELSE LET start == Head(sil)[1]
             end == Head(sil)[2]
         IN (IF start - previous_end > EPSILON
             THEN <<<<previous_end, start>>>> ELSE <<>>)
            \o SpeechFrom(Tail(sil), end, dur)

SilencesToSpeech(sil, dur) == SpeechFrom(sil, 0, dur)

InvertSilences ==
    /\ pc = "speech"
    /\ speech_segments' = SilencesToSpeech(silences, duration)
    /\ pc' = "pad"
    /\ UNCHANGED <<error, starts, ends, duration, events, evIdx, current_start,
                   silences, pad, padded, exports>>
    /\ UNCHANGED fitVars
    /\ UNCHANGED <<parseVars, runsVars>>

-----------------------------------------------------------------------------
(* _apply_padding *)

RECURSIVE ApplyPadding(_, _, _)

\* the end of the window is not clamped to the duration
ApplyPaddingWithoutEndClamp(segs, dur, p) ==
    IF segs = <<>> THEN <<>>
    ELSE LET start == Head(segs)[1]
             end == Head(segs)[2]
             window_start == Max(0, start - p)
             window_end == end + p
         IN (IF window_end - window_start >= MIN_SEGMENT_DURATION
             THEN <<<<window_start, window_end>>>> ELSE <<>>)
            \o ApplyPadding(Tail(segs), dur, p)

\* a window of exactly the minimum length is dropped
ApplyPaddingStrictMinimum(segs, dur, p) ==
    IF segs = <<>> THEN <<>>
    ELSE LET start == Head(segs)[1]
             end == Head(segs)[2]
             window_start == Max(0, start - p)
             window_end == Min(dur, end + p)
         IN (IF window_end - window_start > MIN_SEGMENT_DURATION
             THEN <<<<window_start, window_end>>>> ELSE <<>>)
            \o ApplyPadding(Tail(segs), dur, p)

ApplyPadding(segs, dur, p) ==
    IF segs = <<>> THEN <<>>
    ELSE LET start == Head(segs)[1]
             end == Head(segs)[2]
             window_start == Max(0, start - p)
             window_end == Min(dur, end + p)
         IN (IF window_end - window_start >= MIN_SEGMENT_DURATION
             THEN <<<<window_start, window_end>>>> ELSE <<>>)
            \o ApplyPadding(Tail(segs), dur, p)

PadSegments ==
    /\ pc = "pad"
    /\ padded' = ApplyPadding(speech_segments, duration, pad)
    /\ pc' = "padded"
    /\ UNCHANGED <<error, starts, ends, duration, events, evIdx, current_start,
                   silences, speech_segments, pad, exports>>
    /\ UNCHANGED fitVars
    /\ UNCHANGED <<parseVars, runsVars>>

\* the empty result is handed on instead of raising
DetectReturnWithoutEmptyTest ==
    /\ pc = "padded"
    /\ segments' = padded
    /\ pc' = "fit"
    /\ UNCHANGED error
    /\ UNCHANGED <<target, ordered, best, gapIdx, fitted, exports>>
    /\ UNCHANGED detectVars
    /\ UNCHANGED <<parseVars, runsVars>>

\* _detect_segments: raise when nothing is left, else hand the padded
\* segments to run, which calls the fitter on them
DetectReturn ==
    /\ pc = "padded"
    /\ IF padded = <<>>
       THEN /\ Fail("NoSpeechRegions")
            /\ UNCHANGED segments
       ELSE /\ segments' = padded
            /\ pc' = "fit"
            /\ UNCHANGED error
    /\ UNCHANGED <<target, ordered, best, gapIdx, fitted, exports>>
    /\ UNCHANGED detectVars
    /\ UNCHANGED <<parseVars, runsVars>>

-----------------------------------------------------------------------------
(* _parse_silence_log *)

(* A line of the log is the pair of tokens that SILENCE_START_RE and        *)
(* SILENCE_END_RE capture in it; NoMatch when the pattern does not match.   *)
(* A token is the captured string of characters of [0-9.]+ .               *)
NoMatch == <<>>

Digits == {"0", "1", "2", "3", "4", "5", "6", "7", "8", "9"}

DigitValue(c) ==
    CASE c = "0" -> 0 [] c = "1" -> 1 [] c = "2" -> 2 [] c = "3" -> 3
      [] c = "4" -> 4 [] c = "5" -> 5 [] c = "6" -> 6 [] c = "7" -> 7
      [] c = "8" -> 8 [] c = "9" -> 9

RECURSIVE DecimalValue(_)
DecimalValue(digs) ==
    IF digs = <<>> THEN 0
    ELSE 10 * DecimalValue(SubSeq(digs, 1, Len(digs) - 1)) + DigitValue(digs[Len(digs)])

DotPositions(tok) == {i \in 1..Len(tok) : tok[i] = "."}

\* float(tok) raises ValueError unless tok has a digit and at most one dot
FloatAccepts(tok) ==
    /\ Cardinality(DotPositions(tok)) <= 1
    /\ Len(tok) > Cardinality(DotPositions(tok))

\* float(tok) in milliseconds (fraction digits beyond the third are dropped)
FloatValue(tok) ==
    LET dot == IF DotPositions(tok) = {} THEN Len(tok) + 1
               ELSE CHOOSE i \in DotPositions(tok) : TRUE
        whole == SubSeq(tok, 1, dot - 1)
        frac == SubSeq(SubSeq(tok, dot + 1, Len(tok)) \o <<"0", "0", "0">>, 1, 3)
    IN 1000 * DecimalValue(whole) + DecimalValue(frac)

ParseLine ==
    /\ pc = "parse"
    /\ lineIdx < Len(log)
    /\ LET line == log[lineIdx + 1]
           startBad == line[1] # NoMatch /\ ~FloatAccepts(line[1])
           endBad == line[2] # NoMatch /\ ~FloatAccepts(line[2])
       IN /\ starts' = IF line[1] # NoMatch /\ ~startBad
                       THEN Append(starts, FloatValue(line[1])) ELSE starts
          /\ ends' = IF line[2] # NoMatch /\ ~startBad /\ ~endBad
                     THEN Append(ends, FloatValue(line[2])) ELSE ends
          /\ IF startBad \/ endBad
             THEN /\ Fail("ValueError")
                  /\ UNCHANGED lineIdx
             ELSE /\ lineIdx' = lineIdx + 1
                  /\ UNCHANGED <<pc, error>>
    /\ UNCHANGED <<log, duration, events, evIdx, current_start, silences,
                   speech_segments, pad, padded, exports>>
    /\ UNCHANGED <<fitVars, runsVars>>

ParseReturn ==
    /\ pc = "parse"
    /\ lineIdx = Len(log)
    /\ pc' = "pair"
    /\ UNCHANGED <<error, exports>>
    /\ UNCHANGED <<detectVars, fitVars, parseVars, runsVars>>

ParseIdle ==
    /\ log = <<>>
    /\ lineIdx = 0

-----------------------------------------------------------------------------
(* run() as seen from the file system: the external tool invocations of    *)
(* concurrent runs, one ToneClipProcessor per run. The in-memory stages    *)
(* (modelled in detail above) appear here only by their outcome: they      *)
(* return or raise.                                                        *)

Runs == {1, 2}

Other(r) == 3 - r

(* A path is <<directory, file name>>, a directory a sequence of           *)
(* components, a file name a sequence of parts that are concatenated.      *)
(* A caller-supplied name is <<"rel", n>> (a plain file name)  *)
(* or <<"abs", n>> (an absolute path): pathlib's dir / name yields the     *)
(* name itself when the name is absolute.                                  *)
JoinPath(dir, name) ==
    IF name[1] = "abs" THEN <<<<"/">>, <<name[2]>>>> ELSE <<dir, <<name[2]>>>>

ClipsDir(r) == config[r].output_dir \o <<"clips">>

WavPath(r) == <<config[r].output_dir, config[r].input_path[2] \o <<"_mono16k.wav">>>>

ClipPath(r, idx) == JoinPath(ClipsDir(r), config[r].names[idx])

ConcatFile(r) == <<config[r].output_dir, <<".tone_concat.txt">>>>

CombinedPath(r) == JoinPath(config[r].output_dir, config[r].combined_name)

Call(op, idx, reads, writes, list, rc) ==
    [op |-> op, idx |-> idx, reads |-> reads, writes |-> writes,
     list |-> list, rc |-> rc]

\* run r invokes the external tool (_run): the call is recorded, the paths
\* it reads or writes that the other run has written are clashes
Invoke(r, call) ==
    /\ calls' = [calls EXCEPT ![r] = Append(@, call)]
    /\ clashes' = clashes \cup
          {<<r, p>> : p \in (call.reads \cup call.writes) \cap written[Other(r)]}
    /\ IF call.rc = 0
       THEN /\ fs' = fs \cup call.writes
            /\ written' = [written EXCEPT ![r] = @ \cup call.writes]
       ELSE UNCHANGED <<fs, written>>

RunFail(r, tag) ==
    /\ rpc' = [rpc EXCEPT ![r] = "failed"]
    /\ rerror' = [rerror EXCEPT ![r] = tag]

RunGoto(r, label) ==
    /\ rpc' = [rpc EXCEPT ![r] = label]
    /\ UNCHANGED rerror

ConvertToReferenceWav(r) ==
    /\ rpc[r] = "convert"
    /\ \E returncode \in {0, 1} :
          /\ Invoke(r, Call("convert", 0, {config[r].input_path}, {WavPath(r)},
                            <<>>, returncode))
          /\ IF returncode # 0 THEN RunFail(r, "CommandFailed")
             ELSE RunGoto(r, "probe")
    /\ UNCHANGED <<config, rexports>>
    /\ UNCHANGED singleVars

ProbeDuration(r) ==
    /\ rpc[r] = "probe"
    /\ \E returncode \in {0, 1} :
          /\ Invoke(r, Call("probe", 0, {WavPath(r)}, {}, <<>>, returncode))
          /\ IF returncode # 0 THEN RunFail(r, "CommandFailed")
             ELSE \/ RunFail(r, "UnableToParseDuration")
                  \/ RunGoto(r, IF config[r].enabled THEN "detect" ELSE "fit")
    /\ UNCHANGED <<config, rexports>>
    /\ UNCHANGED singleVars

\* _detect_segments: the silencedetect call, then the in-memory stages,
\* which return the padded segments or raise
DetectSegments(r) ==
    /\ rpc[r] = "detect"
    /\ \E returncode \in {0, 1} :
          /\ Invoke(r, Call("silencedetect", 0, {WavPath(r)}, {}, <<>>, returncode))
          /\ IF returncode # 0 THEN RunFail(r, "CommandFailed")
             ELSE \/ RunFail(r, "NoSpeechRegions")
                  \/ RunGoto(r, "fit")
    /\ UNCHANGED <<config, rexports>>
    /\ UNCHANGED singleVars

\* _fit_segments_to_target: returns config.clips.count segments or raises
FitSegments(r) ==
    /\ rpc[r] = "fit"
    /\ \/ RunFail(r, "FitFailed")
       \/ RunGoto(r, "export")
    /\ UNCHANGED <<config, rexports, calls, fs, written, clashes>>
    /\ UNCHANGED singleVars

\* a failed extraction is skipped and the loop goes on
ExtractClipSkippingFailure(r) ==
    /\ rpc[r] = "export"
    /\ Len(rexports[r]) < config[r].count
    /\ LET idx == Len(rexports[r]) + 1
       IN \E returncode \in {0, 1} :
            /\ Invoke(r, Call("extract", idx, {config[r].input_path},
                              {<<ClipsDir(r), <<config[r].names[idx][2]>>>>}, <<>>, returncode))
            /\ rexports' = [rexports EXCEPT ![r] = Append(@, <<ClipsDir(r), <<config[r].names[idx][2]>>>>)]
            /\ RunGoto(r, "export")
    /\ UNCHANGED config
    /\ UNCHANGED singleVars

\* every clip is written under the first name
ExtractClipFirstName(r) ==
    /\ rpc[r] = "export"
    /\ Len(rexports[r]) < config[r].count
    /\ LET idx == Len(rexports[r]) + 1
       IN \E returncode \in {0, 1} :
            /\ Invoke(r, Call("extract", idx, {config[r].input_path},
                              {ClipPath(r, 1)}, <<>>, returncode))
            /\ IF returncode # 0
               THEN /\ RunFail(r, "CommandFailed")
                    /\ UNCHANGED rexports
               ELSE /\ rexports' = [rexports EXCEPT ![r] = Append(@, ClipPath(r, 1))]
                    /\ RunGoto(r, "export")
    /\ UNCHANGED config
    /\ UNCHANGED singleVars

\* _export_segments: one iteration of the loop
ExtractClip(r) ==
    /\ rpc[r] = "export"
    /\ Len(rexports[r]) < config[r].count
    /\ LET idx == Len(rexports[r]) + 1
       IN \E returncode \in {0, 1} :
            /\ Invoke(r, Call("extract", idx, {config[r].input_path},
                              {ClipPath(r, idx)}, <<>>, returncode))
            /\ IF returncode # 0
               THEN /\ RunFail(r, "CommandFailed")
                    /\ UNCHANGED rexports
               ELSE /\ rexports' = [rexports EXCEPT ![r] = Append(@, ClipPath(r, idx))]
                    /\ RunGoto(r, "export")
    /\ UNCHANGED config
    /\ UNCHANGED singleVars

ExportsReturn(r) ==
    /\ rpc[r] = "export"
    /\ Len(rexports[r]) = config[r].count
    /\ RunGoto(r, "combine")
    /\ UNCHANGED <<config, rexports, calls, fs, written, clashes>>
    /\ UNCHANGED singleVars

\* _combine_exports: the list file is written
WriteConcatFile(r) ==
    /\ rpc[r] = "combine"
    /\ IF rexports[r] = <<>>
       THEN /\ RunFail(r, "NoExports")
            /\ UNCHANGED <<fs, written, clashes>>
       ELSE /\ RunGoto(r, "concat")
            /\ fs' = fs \cup {ConcatFile(r)}
            /\ written' = [written EXCEPT ![r] = @ \cup {ConcatFile(r)}]
            /\ clashes' = clashes \cup
                  {<<r, p>> : p \in {ConcatFile(r)} \cap written[Other(r)]}
    /\ UNCHANGED <<config, rexports, calls>>
    /\ UNCHANGED singleVars

\* _combine_exports: the concat call; an error is pending until the
\* finally clause has run
Concatenate(r) ==
    /\ rpc[r] = "concat"
    /\ \E returncode \in {0, 1} :
          /\ Invoke(r, Call("concat", 0,
                            {ConcatFile(r)} \cup {rexports[r][i] : i \in 1..Len(rexports[r])},
                            {CombinedPath(r)}, rexports[r], returncode))
          /\ rpc' = [rpc EXCEPT ![r] = "cleanup"]
          /\ rerror' = [rerror EXCEPT ![r] =
                           IF returncode # 0 THEN "CommandFailed" ELSE @]
    /\ UNCHANGED <<config, rexports>>
    /\ UNCHANGED singleVars

\* the list is removed only when the concat call succeeded
UnlinkConcatFileOnSuccess(r) ==
    /\ rpc[r] = "cleanup"
    /\ fs' = IF rerror[r] = "" THEN fs \ {ConcatFile(r)} ELSE fs
    /\ clashes' = clashes
    /\ rpc' = [rpc EXCEPT ![r] = IF rerror[r] # "" THEN "failed" ELSE "done"]
    /\ UNCHANGED <<config, rerror, rexports, calls, written>>
    /\ UNCHANGED singleVars

\* _combine_exports: the finally clause, then the return or the re-raise
UnlinkConcatFile(r) ==
    /\ rpc[r] = "cleanup"
    /\ fs' = fs \ {ConcatFile(r)}
    /\ clashes' = clashes \cup
          {<<r, p>> : p \in ({ConcatFile(r)} \cap fs) \cap written[Other(r)]}
    /\ rpc' = [rpc EXCEPT ![r] = IF rerror[r] # "" THEN "failed" ELSE "done"]
    /\ UNCHANGED <<config, rerror, rexports, calls, written>>
    /\ UNCHANGED singleVars

IdleConfig ==
    [input_path |-> <<<<>>, <<>>>>, output_dir |-> <<>>, count |-> 1,
     names |-> <<>>, combined_name |-> <<"rel", "">>, enabled |-> TRUE]

RunsIdle ==
    /\ config = [r \in Runs |-> IdleConfig]
    /\ rpc = [r \in Runs |-> "idle"]
    /\ rerror = [r \in Runs |-> ""]
    /\ rexports = [r \in Runs |-> <<>>]
    /\ calls = [r \in Runs |-> <<>>]
    /\ fs = {}
    /\ written = [r \in Runs |-> {}]
    /\ clashes = {}

-----------------------------------------------------------------------------
(* _split_evenly. Here duration is in microseconds and a segment bound is *)
(* in units of 1e-5 s, the grid round(x, 5) maps onto.                    *)

\* rounds towards zero
RoundDown(num, den) == {num \div den}

\* the integers nearest to num / den. At an exact decimal tie the binary
\* float lies on either side of it, and round() goes either way.
Nearest(num, den) ==
    LET q == num \div den
        r == num % den
    IN IF 2 * r < den THEN {q}
       ELSE IF 2 * r > den THEN {q + 1}
       ELSE {q, q + 1}

\* the values round(x, 5) can take for x = num / den microseconds
Round5(num, den) == Nearest(num, 10 * den)

\* the i-th segment boundary: idx * segment_length, and duration itself
\* for the last end
BoundaryChoices(i, dur, count) ==
    IF i = count THEN Round5(dur, 1) ELSE Round5(i * dur, count)

\* the boundaries i..count; the end of a segment and the start of the next
\* are the same float expression, hence the same value
RECURSIVE BoundarySeqs(_, _, _)
BoundarySeqs(i, dur, count) ==
    IF i > count THEN {<<>>}
    ELSE {<<b>> \o rest : b \in BoundaryChoices(i, dur, count),
                          rest \in BoundarySeqs(i + 1, dur, count)}

\* the results _split_evenly can return
SplitEvenly(dur, count) ==
    {[i \in 1..count |-> <<b[i], b[i + 1]>>] : b \in BoundarySeqs(0, dur, count)}

\* run with detection disabled: the segments come from _split_evenly
SplitSegments ==
    /\ pc = "split"
    /\ segments' \in SplitEvenly(duration, target)
    /\ pc' = "fit"
    /\ UNCHANGED <<error, target, ordered, best, gapIdx, fitted, exports>>
    /\ UNCHANGED detectVars
    /\ UNCHANGED <<parseVars, runsVars>>

-----------------------------------------------------------------------------
(* Inputs of the detection stages *)

MaxEvents == 2

MaxPadSegs == 2

TimeChoices == {0, 2000, 2100, 6000, 6200}

DurationChoices == {0, 1, 2, 6100, 10000}

PadChoices == {0, 70}

PointChoices == {0, 20, 50, 60, 130}

PadDurationChoices == {0, 40, 100, 120}

WidePadChoices == {-30, 0, 10, 70}

SeqsUpTo(S, n) == UNION { [1..m -> S] : m \in 0..n }

InitDetect ==
    /\ pc = "pair"
    /\ error = ""
    /\ starts \in SeqsUpTo(TimeChoices, MaxEvents)
    /\ ends \in SeqsUpTo(TimeChoices, MaxEvents)
    /\ duration \in DurationChoices
    /\ pad \in PadChoices
    /\ events = <<>>
    /\ evIdx = 0
    /\ current_start = None
    /\ silences = <<>>
    /\ speech_segments = <<>>
    /\ padded = <<>>
    /\ segments = <<>>
    /\ target = 1
    /\ ordered = <<>>
    /\ best = <<>>
    /\ gapIdx = 0
    /\ fitted = <<>>
    /\ exports = <<>>
    /\ ParseIdle
    /\ RunsIdle

NextDetect ==
    PairBegin \/ SweepStart \/ SweepEnd \/ PairClose \/ InvertSilences
        \/ PadSegments \/ DetectReturn

SpecDetect == InitDetect /\ [][NextDetect]_vars

ChainTimeChoices == {0, 2000, 2100, 6000}

ChainDurationChoices == {6100}

\* a detection run up to the return of the fitter: _detect_segments from
\* the paired timestamps on, then _fit_segments_to_target for every target
InitDetectFit ==
    /\ pc = "pair"
    /\ error = ""
    /\ starts \in SeqsUpTo(ChainTimeChoices, MaxEvents)
    /\ ends \in SeqsUpTo(ChainTimeChoices, MaxEvents)
    /\ duration \in ChainDurationChoices
    /\ pad \in PadChoices
    /\ events = <<>>
    /\ evIdx = 0
    /\ current_start = None
    /\ silences = <<>>
    /\ speech_segments = <<>>
    /\ padded = <<>>
    /\ segments = <<>>
    /\ target \in 1..MaxTarget
    /\ ordered = <<>>
    /\ best = <<>>
    /\ gapIdx = 0
    /\ fitted = <<>>
    /\ exports = <<>>
    /\ ParseIdle
    /\ RunsIdle

NextDetectFit ==
    PairBegin \/ SweepStart \/ SweepEnd \/ PairClose \/ InvertSilences
        \/ PadSegments \/ DetectReturn \/ FitEnter \/ FitMergePass \/ FitFinish

SpecDetectFit == InitDetectFit /\ [][NextDetectFit]_vars

\* a direct call of _apply_padding, and the return of _detect_segments
InitPad ==
    /\ pc = "pad"
    /\ error = ""
    /\ starts = <<>>
    /\ ends = <<>>
    /\ duration \in PadDurationChoices
    /\ pad \in WidePadChoices
    /\ events = <<>>
    /\ evIdx = 0
    /\ current_start = None
    /\ silences = <<>>
    /\ speech_segments \in SeqsUpTo(PointChoices \X PointChoices, MaxPadSegs)
    /\ padded = <<>>
    /\ segments = <<>>
    /\ target = 1
    /\ ordered = <<>>
    /\ best = <<>>
    /\ gapIdx = 0
    /\ fitted = <<>>
    /\ exports = <<>>
    /\ ParseIdle
    /\ RunsIdle

NextPad == PadSegments \/ DetectReturn

SpecPad == InitPad /\ [][NextPad]_vars

MaxSilences == 2

InvertPoints == 0..6

\* the silence sequences _silences_to_speech is specified for: intervals
\* with start < end, ordered, non-overlapping, within [0, dur]
SilenceInputs(dur) ==
    {sil \in SeqsUpTo(InvertPoints \X InvertPoints, MaxSilences) :
        /\ \A i \in 1..Len(sil) : sil[i][1] < sil[i][2] /\ sil[i][2] <= dur
        /\ \A i \in 1..(Len(sil) - 1) : sil[i][2] <= sil[i + 1][1]}

\* a direct call of _silences_to_speech, followed by the rest of
\* _detect_segments
InitInvert ==
    /\ pc = "speech"
    /\ error = ""
    /\ starts = <<>>
    /\ ends = <<>>
    /\ duration \in InvertPoints
    /\ pad = 0
    /\ events = <<>>
    /\ evIdx = 0
    /\ current_start = None
    /\ silences \in SilenceInputs(duration)
    /\ speech_segments = <<>>
    /\ padded = <<>>
    /\ segments = <<>>
    /\ target = 1
    /\ ordered = <<>>
    /\ best = <<>>
    /\ gapIdx = 0
    /\ fitted = <<>>
    /\ exports = <<>>
    /\ ParseIdle
    /\ RunsIdle

NextInvert == InvertSilences \/ PadSegments \/ DetectReturn

SpecInvert == InitInvert /\ [][NextInvert]_vars

SplitDurationChoices ==
    {1, 4, 15, 25, 1000, 1000000, 1234567, 3482449, 6100000, 10000005}

\* a run with detection disabled, from the probed duration to the return
\* of the fitter
InitSplit ==
    /\ pc = "split"
    /\ error = ""
    /\ starts = <<>>
    /\ ends = <<>>
    /\ duration \in SplitDurationChoices
    /\ pad = 0
    /\ events = <<>>
    /\ evIdx = 0
    /\ current_start = None
    /\ silences = <<>>
    /\ speech_segments = <<>>
    /\ padded = <<>>
    /\ segments = <<>>
    /\ target \in 1..MaxTarget
    /\ ordered = <<>>
    /\ best = <<>>
    /\ gapIdx = 0
    /\ fitted = <<>>
    /\ exports = <<>>
    /\ ParseIdle
    /\ RunsIdle

NextSplit == SplitSegments \/ FitEnter

SpecSplit == InitSplit /\ [][NextSplit]_vars

MaxLines == 2

TokenChoices ==
    { <<"2">>, <<"2", ".", "1">>, <<".", "5">>, <<"6", ".">>,
      <<".">>, <<"1", ".", "2", ".", "3">> }

LineChoices == (TokenChoices \cup {NoMatch}) \X (TokenChoices \cup {NoMatch})

\* a call of _parse_silence_log on the captured stderr of the detector
InitParse ==
    /\ pc = "parse"
    /\ error = ""
    /\ log \in SeqsUpTo(LineChoices, MaxLines)
    /\ lineIdx = 0
    /\ starts = <<>>
    /\ ends = <<>>
    /\ duration = 10000
    /\ pad = 0
    /\ events = <<>>
    /\ evIdx = 0
    /\ current_start = None
    /\ silences = <<>>
    /\ speech_segments = <<>>
    /\ padded = <<>>
    /\ segments = <<>>
    /\ target = 1
    /\ ordered = <<>>
    /\ best = <<>>
    /\ gapIdx = 0
    /\ fitted = <<>>
    /\ exports = <<>>
    /\ RunsIdle

NextParse == ParseLine \/ ParseReturn

SpecParse == InitParse /\ [][NextParse]_vars

MaxClips == 2

NameChoices == {<<"rel", "a">>, <<"abs", "x">>}

CombinedNameChoices == {<<"rel", "combined">>, <<"abs", "combined">>}

\* the configurations of run r: its own input file and output directory
ConfigChoices(r) ==
    UNION { { [input_path |-> <<<<"media">>, <<IF r = 1 THEN "in1" ELSE "in2">>>>,
                output_dir |-> <<IF r = 1 THEN "out1" ELSE "out2">>,
                count |-> n, names |-> nm, combined_name |-> cn, enabled |-> en] :
                  nm \in [1..n -> NameChoices],
                  cn \in CombinedNameChoices, en \in BOOLEAN } : n \in 1..MaxClips }

\* two processors constructed over different inputs and output directories
InitRuns ==
    /\ config \in {c \in [Runs -> UNION {ConfigChoices(r) : r \in Runs}] :
                      \A r \in Runs : c[r] \in ConfigChoices(r)}
    /\ rpc = [r \in Runs |-> "convert"]
    /\ rerror = [r \in Runs |-> ""]
    /\ rexports = [r \in Runs |-> <<>>]
    /\ calls = [r \in Runs |-> <<>>]
    /\ fs = {config[r].input_path : r \in Runs}
    /\ written = [r \in Runs |-> {}]
    /\ clashes = {}
    /\ pc = "idle"
    /\ error = ""
    /\ exports = <<>>
    /\ starts = <<>>
    /\ ends = <<>>
    /\ duration = 0
    /\ pad = 0
    /\ events = <<>>
    /\ evIdx = 0
    /\ current_start = None
    /\ silences = <<>>
    /\ speech_segments = <<>>
    /\ padded = <<>>
    /\ segments = <<>>
    /\ target = 1
    /\ ordered = <<>>
    /\ best = <<>>
    /\ gapIdx = 0
    /\ fitted = <<>>
    /\ ParseIdle

NextRuns ==
    \E r \in Runs :
        \/ ConvertToReferenceWav(r)
        \/ ProbeDuration(r)
        \/ DetectSegments(r)
        \/ FitSegments(r)
        \/ ExtractClip(r)
        \/ ExportsReturn(r)
        \/ WriteConcatFile(r)
        \/ Concatenate(r)
        \/ UnlinkConcatFile(r)

SpecRuns == InitRuns /\ [][NextRuns]_vars

-----------------------------------------------------------------------------
(* Inputs of the fitter *)

RECURSIVE LayoutFrom(_, _, _, _)
LayoutFrom(i, t, lens, gaps) ==
    IF i > Len(lens) THEN <<>>
    ELSE <<<<t, t + lens[i]>>>> \o
         LayoutFrom(i + 1,
                    t + lens[i] + (IF i <= Len(gaps) THEN gaps[i] ELSE 0),
                    lens, gaps)

Layout(lens, gaps) == LayoutFrom(1, 0, lens, gaps)

SortedInputs ==
    UNION { { Layout(l, g) : l \in [1..m -> LenChoices],
                             g \in [1..(m - 1) -> GapChoices] } : m \in 0..MaxSegs }

FitInputs == SortedInputs \cup { Reverse(s) : s \in SortedInputs }

ScenarioBInputs ==
    { Layout([i \in 1..12 |-> IF i % 2 = 1 THEN a ELSE b],
             [i \in 1..11 |-> IF i % 2 = 1 THEN 40 ELSE 500]) :
        a \in LenChoices, b \in LenChoices }

InitFit ==
    /\ pc = "fit"
    /\ error = ""
    /\ \/ segments \in FitInputs /\ target \in 1..MaxTarget
       \/ segments \in ScenarioBInputs /\ target = 6
    /\ ordered = <<>>
    /\ best = <<>>
    /\ gapIdx = 0
    /\ fitted = <<>>
    /\ exports = <<>>
    /\ starts = <<>>
    /\ ends = <<>>
    /\ duration = 0
    /\ events = <<>>
    /\ evIdx = 0
    /\ current_start = None
    /\ silences = <<>>
    /\ speech_segments = <<>>
    /\ pad = 0
    /\ padded = <<>>
    /\ ParseIdle
    /\ RunsIdle

NextFit == FitEnter \/ FitMergePass \/ FitFinish \/ ExportClip \/ ExportReturn

SpecFit == InitFit /\ [][NextFit]_vars

-----------------------------------------------------------------------------
(* Properties of the fitter, checked under SpecFit *)

IsSortedByStart(s) == \A i \in 1..(Len(s) - 1) : s[i][1] <= s[i + 1][1]

NonOverlapping(s) == \A i \in 1..(Len(s) - 1) : s[i][2] <= s[i + 1][1]

SortedNonOverlapping(s) == IsSortedByStart(s) /\ NonOverlapping(s)

FitErrors == {"NoSegmentsAvailable", "DetectedOnly", "UnableToReduce"}

FitRunning == pc \in {"fit", "merge", "trim"}

FitRaised == pc = "failed" /\ error \in FitErrors

FitReturned == ~FitRunning /\ ~FitRaised

\* the sequence the loop holds after k passes: pass i merges the result of
\* pass i-1 at the i-th threshold
RECURSIVE CumulativeMerge(_, _)
CumulativeMerge(segs, k) ==
    IF k = 0 THEN segs
    ELSE MergeAdjacent(CumulativeMerge(segs, k - 1), MERGE_GAPS_SECONDS[k])

RunMaxEnd(segs, lo, hi) ==
    CHOOSE e \in {segs[j][2] : j \in lo..hi} :
        \A j \in lo..hi : segs[j][2] <= e

RunMinStart(segs, lo, hi) ==
    CHOOSE b \in {segs[j][1] : j \in lo..hi} :
        \A j \in lo..hi : b <= segs[j][1]

\* res[i..] are coalescings of disjoint contiguous runs of segs[from..], in order
RECURSIVE CoalescesRuns(_, _, _, _)
CoalescesRuns(res, i, segs, from) ==
    IF i > Len(res) THEN TRUE
    ELSE \E lo \in from..Len(segs) : \E hi \in lo..Len(segs) :
            /\ res[i] = <<RunMinStart(segs, lo, hi), RunMaxEnd(segs, lo, hi)>>
            /\ CoalescesRuns(res, i + 1, segs, hi + 1)

C1_Pre == SortedNonOverlapping(segments) /\ 1 <= target /\ target <= Len(segments)

\* C1 as stated: for sorted, non-overlapping input of M segments and
\* 1 <= N <= M, the fitter returns (never raises) and returns exactly N
\* intervals.
C1_AlwaysReturnsN ==
    C1_Pre => /\ ~FitRaised
              /\ FitReturned => Len(fitted) = target

\* C1 (amended): for sorted, non-overlapping input of M segments and
\* 1 <= N <= M, every return of the fitter has exactly N intervals, and the
\* only failure is the unable-to-reduce error, raised exactly when the first
\* merge pass that brings the count to <= N brings it below N.
C1_ReturnsNOrUnableToReduce ==
    C1_Pre =>
        /\ FitReturned => Len(fitted) = target
        /\ (FitReturned /\ gapIdx >= 1) =>
              Len(CumulativeMerge(segments, gapIdx)) >= target
        /\ FitRaised =>
              /\ error = "UnableToReduce"
              /\ gapIdx >= 1
              /\ best = CumulativeMerge(segments, gapIdx)
              /\ Len(best) < target
              /\ Len(CumulativeMerge(segments, gapIdx - 1)) > target
        /\ (pc = "trim" /\ Len(best) < target) =>
              /\ best = CumulativeMerge(segments, gapIdx)
              /\ Len(CumulativeMerge(segments, gapIdx - 1)) > target

C1_Witness ==
    /\ C1_Pre
    /\ Len(segments) > target
    /\ gapIdx >= 2
    /\ pc = "export"
    /\ Len(fitted) = target

\* C2: for sorted, non-overlapping input, every returned interval is the
\* coalescing (earliest start, latest end) of one contiguous run of input
\* intervals, the runs are disjoint and in input order, and the result is
\* sorted by start and non-overlapping.
C2_ResultCoalescesRuns ==
    (SortedNonOverlapping(segments) /\ FitReturned) =>
        /\ CoalescesRuns(fitted, 1, segments, 1)
        /\ IsSortedByStart(fitted)
        /\ NonOverlapping(fitted)

C2_Witness ==
    /\ SortedNonOverlapping(segments)
    /\ pc = "export"
    /\ gapIdx >= 1
    /\ Len(fitted) >= 2
    /\ \E i \in 1..Len(fitted) : fitted[i] \notin {segments[j] : j \in 1..Len(segments)}

\* C3: with M < N candidate segments the fitter fails with the
\* insufficient-segments error (for M = 0 the error raised is the
\* no-segments-available one), returns no sequence, runs no merge pass,
\* and no export is started.
C3_TooFewSegmentsFails ==
    Len(segments) < target =>
        /\ pc \in {"fit", "failed"}
        /\ pc = "failed" =>
              error = IF Len(segments) = 0 THEN "NoSegmentsAvailable"
                      ELSE "DetectedOnly"
        /\ fitted = <<>>
        /\ best = <<>>
        /\ gapIdx = 0
        /\ exports = <<>>

C3_Witness ==
    /\ Len(segments) = 3
    /\ target = 5
    /\ pc = "failed"
    /\ error = "DetectedOnly"

\* C4: when the input is ordered by start and has exactly N segments, the
\* fitter returns the input itself, element for element, whatever the gaps.
C4_EqualCountUnchanged ==
    (IsSortedByStart(segments) /\ Len(segments) = target /\ ~(pc = "fit")) =>
        /\ FitReturned
        /\ fitted = segments
        /\ gapIdx = 0

C4_Witness ==
    /\ IsSortedByStart(segments)
    /\ Len(segments) = target
    /\ target >= 3
    /\ pc = "export"
    /\ segments[2][1] - segments[1][2] = 40
    /\ segments[3][1] < segments[2][2]
    /\ fitted = segments

\* an increasing list of thresholds: below, at and above those of the fitter
ThresholdChoices == <<-60, 0, 40, 59>> \o MERGE_GAPS_SECONDS \o <<310, 500>>

\* C5: for the non-empty sorted sequence handed to a merge pass and any two
\* thresholds t1 < t2, the pass at t1 yields at least as many intervals as
\* the pass at t2 (stated for each threshold and its successor in the
\* increasing list, which gives every pair since >= is transitive).
C5_MergeMonotone ==
    pc = "merge" =>
        \A i \in 1..(Len(ThresholdChoices) - 1) :
            /\ ThresholdChoices[i] < ThresholdChoices[i + 1]
            /\ Len(MergeAdjacent(best, ThresholdChoices[i]))
                  >= Len(MergeAdjacent(best, ThresholdChoices[i + 1]))

C5_Witness ==
    /\ pc = "merge"
    /\ gapIdx >= 1
    /\ Len(MergeAdjacent(best, 60)) > Len(MergeAdjacent(best, 300))
    /\ Len(MergeAdjacent(best, 300)) > Len(MergeAdjacent(best, 310))

\* C6: Scenario B. 12 segments whose gaps alternate 40 ms, 500 ms, target 6:
\* the fitter stops at the first threshold (60 ms), merges exactly the six
\* 40 ms pairs and returns 6 segments with every 500 ms gap intact.
C6_ScenarioB ==
    (segments \in ScenarioBInputs /\ target = 6) =>
        /\ pc = "merge" => gapIdx = 0
        /\ ~FitRaised
        /\ ~(pc \in {"fit", "merge"}) =>
              /\ gapIdx = 1
              /\ MERGE_GAPS_SECONDS[gapIdx] = 60
              /\ Len(best) = 6
              /\ \A i \in 1..6 : best[i] = <<segments[2 * i - 1][1], segments[2 * i][2]>>
              /\ \A i \in 1..5 : best[i + 1][1] - best[i][2] = 500
        /\ FitReturned => fitted = best

C6_Witness ==
    /\ segments \in ScenarioBInputs
    /\ target = 6
    /\ pc = "export"
    /\ Len(fitted) = 6
    /\ Len(exports) = 6

-----------------------------------------------------------------------------
(* Properties of the detection stages, checked under SpecDetect and SpecPad *)

PairReturned == ~(pc \in {"pair", "sweep"})

\* some END is swept with no start open after an interval has been emitted
RECURSIVE DanglingEndAfterEmit(_, _, _, _)
DanglingEndAfterEmit(evs, i, open, emitted) ==
    IF i > Len(evs) THEN FALSE
    ELSE IF evs[i][1] = "start" THEN DanglingEndAfterEmit(evs, i + 1, TRUE, emitted)
    ELSE IF ~open /\ emitted THEN TRUE
    ELSE DanglingEndAfterEmit(evs, i + 1, FALSE, TRUE)

C8_EmptyLogOneSegment ==
    (starts = <<>> /\ ends = <<>> /\ duration # 0) =>
        /\ PairReturned => silences = <<>>
        /\ ~(pc \in {"pair", "sweep", "speech"}) =>
              speech_segments = <<<<0, duration>>>>

\* C8 (amended): for every duration D greater than the 1 ms epsilon, empty
\* starts and ends give the empty silence sequence and then exactly one
\* speech segment (0, D).
C8_EmptyLogOneSegmentAboveEpsilon ==
    (starts = <<>> /\ ends = <<>> /\ duration > EPSILON) =>
        /\ PairReturned => silences = <<>>
        /\ ~(pc \in {"pair", "sweep", "speech"}) =>
              speech_segments = <<<<0, duration>>>>

C8_Witness ==
    /\ starts = <<>>
    /\ ends = <<>>
    /\ duration = 2
    /\ pc = "pad"
    /\ silences = <<>>
    /\ speech_segments = <<<<0, 2>>>>

\* C9: Scenario A. With duration 10.0 s and silences (2.0, 2.1), (6.0, 6.2)
\* the speech segments are (0, 2.0), (2.1, 6.0), (6.2, 10.0), in that order.
C9_ScenarioA ==
    (/\ silences = <<<<2000, 2100>>, <<6000, 6200>>>>
     /\ duration = 10000
     /\ ~(pc \in {"pair", "sweep", "speech"})) =>
        speech_segments = <<<<0, 2000>>, <<2100, 6000>>, <<6200, 10000>>>>

C9_Witness ==
    /\ silences = <<<<2000, 2100>>, <<6000, 6200>>>>
    /\ duration = 10000
    /\ pc = "pad"
    /\ Len(speech_segments) = 3

\* C10: for every input sequence, pad and duration >= 0, each interval
\* emitted by _apply_padding has start >= 0 and end <= duration.
C10_PaddedWithinDuration ==
    (pc \in {"padded", "fit", "failed"} /\ duration >= 0) =>
        \A i \in 1..Len(padded) : padded[i][1] >= 0 /\ padded[i][2] <= duration

C10_Witness ==
    /\ pc = "padded"
    /\ Len(padded) = 2
    /\ speech_segments[1][1] - pad < 0
    /\ speech_segments[2][2] + pad > duration
    /\ padded[1][1] = 0
    /\ padded[2][2] = duration

-----------------------------------------------------------------------------
(* Further properties of the padding, detection and fitting stages *)

PaddingWindow(seg, dur, p) == <<Max(0, seg[1] - p), Min(dur, seg[2] + p)>>

WindowLength(w) == w[2] - w[1]

LongEnough(w) == WindowLength(w) >= MIN_SEGMENT_DURATION

\* C11: _apply_padding emits a padded segment if and only if its clamped
\* length is at least the 50 ms minimum (30 ms is dropped without an error,
\* exactly 50 ms is kept), and the kept segments keep their relative order.
C11_PaddingKeepsLongEnough ==
    pc \in {"padded", "fit", "failed"} =>
        /\ padded = SelectSeq([i \in 1..Len(speech_segments) |->
                                  PaddingWindow(speech_segments[i], duration, pad)],
                              LongEnough)
        /\ \A i \in 1..Len(speech_segments) :
              LET w == PaddingWindow(speech_segments[i], duration, pad)
              IN /\ WindowLength(w) = 30 => ~(\E j \in 1..Len(padded) : padded[j] = w)
                 /\ WindowLength(w) = 50 => \E j \in 1..Len(padded) : padded[j] = w
        /\ pc = "failed" => (error = "NoSpeechRegions" /\ padded = <<>>)

C11_Witness ==
    /\ pc = "fit"
    /\ Len(speech_segments) = 2
    /\ WindowLength(PaddingWindow(speech_segments[1], duration, pad)) = 30
    /\ WindowLength(PaddingWindow(speech_segments[2], duration, pad)) = 50
    /\ padded = <<PaddingWindow(speech_segments[2], duration, pad)>>

\* res[i..] are the coalescings of consecutive runs of segs starting at from:
\* res is obtained from a prefix of segs by merging neighbours only
RECURSIVE MergesPrefix(_, _, _, _)
MergesPrefix(res, i, segs, from) ==
    IF i > Len(res) THEN TRUE
    ELSE \E hi \in from..Len(segs) :
            /\ res[i] = <<RunMinStart(segs, from, hi), RunMaxEnd(segs, from, hi)>>
            /\ MergesPrefix(res, i + 1, segs, hi + 1)

\* C12: for every input and target N >= 1 the fitter never returns fewer
\* than N intervals: every return has exactly N, obtained from the ordered
\* input only by merging neighbours and dropping trailing segments.
C12_NeverBelowTarget ==
    FitReturned =>
        /\ Len(fitted) = target
        /\ MergesPrefix(fitted, 1, ordered, 1)

C12_Witness ==
    /\ pc = "export"
    /\ ~IsSortedByStart(segments)
    /\ gapIdx = Len(MERGE_GAPS_SECONDS)
    /\ Len(ordered) = 3
    /\ Len(fitted) = 1
    /\ target = 1
    /\ fitted[1][2] = ordered[2][2]

\* C13: when speech inversion yields an empty sequence the run fails with
\* the no-speech error and never reaches the fitter or the exporter.
C13_NoSpeechFails ==
    (~(pc \in {"pair", "sweep", "speech"}) /\ speech_segments = <<>>) =>
        /\ pc \in {"pad", "padded", "failed"}
        /\ pc = "failed" => error = "NoSpeechRegions"
        /\ segments = <<>>
        /\ fitted = <<>>
        /\ exports = <<>>

C13_Witness ==
    /\ pc = "failed"
    /\ error = "NoSpeechRegions"
    /\ duration = 10000
    /\ silences = <<<<0, 10000>>>>
    /\ speech_segments = <<>>

\* index of the first threshold whose merge pass over segs gives at most n
\* intervals, the last index if there is none
RECURSIVE FirstReaching(_, _, _)
FirstReaching(segs, n, k) ==
    IF k = Len(MERGE_GAPS_SECONDS) \/ Len(MergeAdjacent(segs, MERGE_GAPS_SECONDS[k])) <= n
    THEN k
    ELSE FirstReaching(segs, n, k + 1)

\* C19: for M > N the sequence held after each pass of the threshold loop
\* equals one merge pass over the original ordered segments at that
\* threshold, and the loop ends at the smallest threshold whose merge count
\* is <= N (at 300 ms if none is).
C19_CumulativeEqualsFresh ==
    /\ (pc \in {"merge", "trim"} /\ gapIdx >= 1) =>
          best = MergeAdjacent(ordered, MERGE_GAPS_SECONDS[gapIdx])
    /\ pc = "trim" => gapIdx = FirstReaching(ordered, target, 1)
    /\ pc = "merge" => gapIdx < FirstReaching(ordered, target, 1)

C19_Witness ==
    /\ pc = "trim"
    /\ gapIdx = 2
    /\ Len(ordered) = 3
    /\ Len(best) = 1
    /\ ordered[2][1] < ordered[1][2]

\* C20: when the merge count still exceeds N after the largest threshold
\* (300 ms) the fitter returns without raising, and its result is the first
\* N intervals of the 300 ms merge result, in order.
C20_TruncationFallback ==
    (/\ ordered # <<>>
     /\ Len(ordered) > target
     /\ Len(MergeAdjacent(ordered, 300)) > target) =>
        /\ ~FitRaised
        /\ FitReturned =>
              /\ gapIdx = Len(MERGE_GAPS_SECONDS)
              /\ MERGE_GAPS_SECONDS[gapIdx] = 300
              /\ fitted = SubSeq(MergeAdjacent(ordered, 300), 1, target)

C20_Witness ==
    /\ pc = "export"
    /\ Len(ordered) = 3
    /\ target = 1
    /\ Len(MergeAdjacent(ordered, 300)) = 2
    /\ fitted = <<MergeAdjacent(ordered, 300)[1]>>
    /\ Len(exports) = 1

-----------------------------------------------------------------------------
(* Properties of the log parser, checked under SpecParse *)

\* the values of the well-formed tokens of the first n lines, in order
RECURSIVE WellFormedValues(_, _, _)
WellFormedValues(lines, n, k) ==
    IF n = 0 THEN <<>>
    ELSE WellFormedValues(lines, n - 1, k) \o
         (IF lines[n][k] # NoMatch /\ FloatAccepts(lines[n][k])
          THEN <<FloatValue(lines[n][k])>> ELSE <<>>)

\* C14: a line whose pattern matches but whose numeric token is malformed
\* (1.2.3, a lone dot) is skipped: the parse does not fail, and the starts
\* and ends of all other lines are returned in the order encountered.
C14_MalformedTokenSkipped ==
    /\ ~(pc = "failed")
    /\ pc = "pair" =>
          /\ starts = WellFormedValues(log, Len(log), 1)
          /\ ends = WellFormedValues(log, Len(log), 2)

-----------------------------------------------------------------------------
(* Properties of the tool invocations of a run *)

CallsOf(r, op) == SelectSeq(calls[r], LAMBDA c : c.op = op)

ExtractionFailedAt(r, i) ==
    /\ i \in 1..Len(calls[r])
    /\ calls[r][i].op = "extract"
    /\ calls[r][i].rc # 0

\* C15: when the extraction of segment k returns a non-zero status, the run
\* has failed with that call as its last tool invocation: the extractions
\* made are exactly those of segments 1..k, once each and in order, all but
\* the last successful, no concatenation was invoked, no combined file
\* written, and the run raises the command failure.
C15_FailedExtractionAborts ==
    \A r \in Runs : \A i \in 1..Len(calls[r]) :
        ExtractionFailedAt(r, i) =>
            LET k == calls[r][i].idx
                ex == CallsOf(r, "extract")
            IN /\ i = Len(calls[r])
               /\ rpc[r] = "failed"
               /\ rerror[r] = "CommandFailed"
               /\ Len(ex) = k
               /\ \A j \in 1..k : ex[j].idx = j /\ (j < k => ex[j].rc = 0)
               /\ CallsOf(r, "concat") = <<>>
               /\ Len(rexports[r]) = k - 1
               /\ ConcatFile(r) \notin fs

C15_Witness ==
    \E r \in Runs :
        /\ rpc[r] = "failed"
        /\ ExtractionFailedAt(r, Len(calls[r]))
        /\ calls[r][Len(calls[r])].idx = 2
        /\ config[r].count = 2

\* C16: once a run has left _combine_exports, by return or by raise, and
\* hence once it has ended, its concatenation list does not exist.
C16_ConcatListRemoved ==
    \A r \in Runs : rpc[r] \in {"done", "failed"} => ConcatFile(r) \notin fs

C16_Witness ==
    \E r \in Runs :
        /\ rpc[r] = "failed"
        /\ ConcatFile(r) \in written[r]
        /\ CallsOf(r, "concat") # <<>>
        /\ CallsOf(r, "concat")[1].rc # 0
        /\ ConcatFile(r) \notin fs

\* C17: once a run has invoked concatenation, and so when it has succeeded,
\* its extractions are those of segments 1..N in order, each successful and
\* the i-th writing the file of the i-th name; the concatenation is the one
\* and last tool invocation after them and its list names the N files in
\* segment order; a run that succeeded had that concatenation succeed.
C17_OrderedExportsThenOneConcat ==
    \A r \in Runs :
        /\ CallsOf(r, "concat") # <<>> =>
              LET N == config[r].count
                  ex == CallsOf(r, "extract")
                  cc == CallsOf(r, "concat")
              IN /\ Len(ex) = N
                 /\ \A i \in 1..N :
                       /\ ex[i].idx = i
                       /\ ex[i].rc = 0
                       /\ ex[i].writes = {JoinPath(ClipsDir(r), config[r].names[i])}
                 /\ Len(cc) = 1
                 /\ calls[r][Len(calls[r])] = cc[1]
                 /\ cc[1].list = [i \in 1..N |-> JoinPath(ClipsDir(r), config[r].names[i])]
        /\ rpc[r] = "done" =>
              /\ CallsOf(r, "concat") # <<>>
              /\ CallsOf(r, "concat")[1].rc = 0

C17_Witness ==
    \E r \in Runs :
        /\ rpc[r] = "done"
        /\ config[r].count = 2
        /\ config[r].names[1] # config[r].names[2]
        /\ Len(CallsOf(r, "extract")) = 2

\* C18: two concurrent runs over different input files and with distinct
\* output directories never read, overwrite or delete a file the other run
\* has written.
C18_NeverTouchOthersFiles == clashes = {}

-----------------------------------------------------------------------------
(* Properties of the _pair_silences sweep, checked under SpecDetect *)

EndsUpTo(evs, i) == {j \in 1..i : evs[j][1] = "end"}

LastEndUpTo(evs, i) ==
    IF EndsUpTo(evs, i) = {} THEN 0
    ELSE CHOOSE j \in EndsUpTo(evs, i) : \A m \in EndsUpTo(evs, i) : m <= j

\* the START events among evs[1..i] that follow the last END among them
StartsSince(evs, i) ==
    {j \in (LastEndUpTo(evs, i) + 1)..i : evs[j][1] = "start"}

EarliestStart(evs, S) ==
    CHOOSE t \in {evs[j][2] : j \in S} : \A j \in S : t <= evs[j][2]

FirstOf(S) == CHOOSE j \in S : \A m \in S : j <= m

\* the position of the k-th END event
KthEnd(evs, k) ==
    CHOOSE j \in EndsUpTo(evs, Len(evs)) : Cardinality(EndsUpTo(evs, j)) = k

Swept == IF pc = "pair" THEN 0 ELSE evIdx

\* C21: during and after the sweep, the open start is the earliest START
\* seen since the previous END (none if there is no such START), a START
\* emits nothing (there are as many intervals as END events swept), and the
\* interval closed by an END that follows such STARTs begins at the
\* earliest of them.
C21_DuplicateStartIgnored ==
    pc = "sweep" =>
        /\ current_start = IF StartsSince(events, evIdx) = {} THEN None
                           ELSE EarliestStart(events, StartsSince(events, evIdx))
        /\ Len(silences) = Cardinality(EndsUpTo(events, evIdx))
        /\ \A k \in 1..Len(silences) :
              LET S == StartsSince(events, KthEnd(events, k) - 1)
              IN S # {} => silences[k][1] = EarliestStart(events, S)

C21_Witness ==
    /\ pc = "sweep"
    /\ evIdx = 3
    /\ events[1][1] = "start"
    /\ events[2][1] = "start"
    /\ events[3][1] = "end"
    /\ events[1][2] < events[2][2]
    /\ silences = <<<<events[1][2], events[3][2]>>>>

\* C22: the k-th END event swept has emitted the k-th interval, which is
\* (open_start, end) when a START precedes it since the previous END and
\* (0, end) otherwise, and no start is open right after an END.
C22_EndEmitsOneInterval ==
    ~(pc = "pair") =>
        /\ Len(silences) >= Cardinality(EndsUpTo(events, evIdx))
        /\ \A k \in 1..Cardinality(EndsUpTo(events, evIdx)) :
              LET j == KthEnd(events, k)
                  S == StartsSince(events, j - 1)
              IN silences[k] =
                    <<IF S = {} THEN 0 ELSE events[FirstOf(S)][2], events[j][2]>>
        /\ (pc = "sweep" /\ evIdx > 0 /\ events[evIdx][1] = "end") =>
              /\ current_start = None
              /\ Len(silences) = Cardinality(EndsUpTo(events, evIdx))

C22_Witness ==
    /\ pc = "sweep"
    /\ evIdx = 3
    /\ events[1][1] = "end"
    /\ events[2][1] = "start"
    /\ events[3][1] = "end"
    /\ events[1][2] > 0
    /\ silences = <<<<0, events[1][2]>>, <<events[2][2], events[3][2]>>>>
    /\ current_start = None

\* C23: when _pair_silences has returned, one interval (open_start,
\* duration) follows those of the END events as the last interval if a
\* START follows the last END, and nothing follows them otherwise.
C23_OpenStartClosedAtDuration ==
    PairReturned =>
        LET n == Cardinality(EndsUpTo(events, Len(events)))
            S == StartsSince(events, Len(events))
        IN IF S # {}
           THEN /\ Len(silences) = n + 1
                /\ silences[n + 1] = <<events[FirstOf(S)][2], duration>>
           ELSE Len(silences) = n

C23_Witness ==
    /\ PairReturned
    /\ Len(events) = 3
    /\ events[3][1] = "start"
    /\ events[2][1] = "end"
    /\ Len(silences) = 2
    /\ silences[2] = <<events[3][2], duration>>
    /\ events[3][2] < duration

\* C24: every silence interval returned by _pair_silences has
\* start < end, for all starts, ends and durations.
C24_SilencesStartBeforeEnd ==
    PairReturned => \A i \in 1..Len(silences) : silences[i][1] < silences[i][2]

TimestampsWithinDuration ==
    \A i \in 1..Len(events) : events[i][2] <= duration

\* the END at position j is swept with no start open
DanglingEnd(evs, j) == evs[j][1] = "end" /\ StartsSince(evs, j - 1) = {}

SilencesMonotoneWithin ==
    /\ \A i \in 1..(Len(silences) - 1) :
          /\ silences[i][1] <= silences[i + 1][1]
          /\ silences[i][2] <= silences[i + 1][2]
          /\ silences[i][2] <= silences[i + 1][1]
    /\ \A i \in 1..Len(silences) : silences[i][2] <= duration

-----------------------------------------------------------------------------
(* Further properties of the fitter and of _merge_adjacent, checked under *)
(* SpecFit *)

\* M > N and the first threshold whose merge count is <= N gives < N
Overshoots ==
    LET ord == SortByStart(segments)
    IN /\ Len(ord) > target
       /\ Len(MergeAdjacent(ord, MERGE_GAPS_SECONDS[FirstReaching(ord, target, 1)]))
             < target

\* C27: when M > N and the first threshold whose merge count is <= N
\* produces fewer than N intervals, the fitter never returns: it ends in
\* the unable-to-reduce error at that threshold, with no sequence returned
\* and nothing exported.
C27_OvershootRaises ==
    Overshoots =>
        /\ ~(pc \in {"export", "combine"})
        /\ fitted = <<>>
        /\ exports = <<>>
        /\ ~FitRunning =>
              /\ pc = "failed"
              /\ error = "UnableToReduce"
              /\ gapIdx = FirstReaching(ordered, target, 1)
              /\ best = MergeAdjacent(ordered, MERGE_GAPS_SECONDS[gapIdx])

C27_Witness ==
    /\ Overshoots
    /\ pc = "failed"
    /\ error = "UnableToReduce"
    /\ gapIdx = 2
    /\ target = 2
    /\ Len(ordered) = 3
    /\ Len(best) = 1

MergeThresholds == {0, 40, 60, 300, 500}

Contains(outer, inner) == outer[1] <= inner[1] /\ inner[2] <= outer[2]

\* C28: for the non-empty segment sequence sorted by start and every
\* threshold t >= 0, the output of _merge_adjacent is sorted by start,
\* consecutive output intervals are more than t apart, the first output
\* start is the first input start, and every input interval lies in
\* exactly one output interval.
C28_MergeOutputSeparated ==
    ordered # <<>> =>
        \A t \in MergeThresholds :
            LET out == MergeAdjacent(ordered, t)
            IN /\ IsSortedByStart(out)
               /\ \A i \in 1..(Len(out) - 1) : out[i + 1][1] - out[i][2] > t
               /\ out[1][1] = ordered[1][1]
               /\ \A i \in 1..Len(ordered) :
                     Cardinality({k \in 1..Len(out) : Contains(out[k], ordered[i])}) = 1

C28_Witness ==
    /\ pc = "trim"
    /\ gapIdx = 1
    /\ Len(ordered) = 3
    /\ ordered[2][1] < ordered[1][2]
    /\ ordered[3][1] - ordered[2][2] = 300
    /\ best = <<<<ordered[1][1], ordered[2][2]>>, ordered[3]>>
    /\ Len(MergeAdjacent(ordered, 300)) = 1

-----------------------------------------------------------------------------
(* Properties of a whole detection run, checked under SpecDetectFit *)

\* C25: in a detection run the segment sequence returned by the fitter is
\* ordered by start and non-overlapping, for every pad >= 0 and every
\* target for which the fitter returns.
C25_FinalSegmentsOrdered ==
    (pc = "export" /\ pad >= 0) => SortedNonOverlapping(fitted)

-----------------------------------------------------------------------------
(* Properties of _silences_to_speech, checked under SpecInvert *)

\* the millisecond [t, t + 1) lies in a silence interval
InSilence(t) == \E i \in 1..Len(silences) : silences[i][1] <= t /\ t < silences[i][2]

\* [a, b) is a maximal silence-free part of [0, duration)
MaximalGap(a, b) ==
    /\ 0 <= a /\ a < b /\ b <= duration
    /\ \A t \in a..(b - 1) : ~InSilence(t)
    /\ a = 0 \/ InSilence(a - 1)
    /\ b = duration \/ InSilence(b)

Intersects(x, y) == Max(x[1], y[1]) < Min(x[2], y[2])

\* C26: for every ordered, non-overlapping sequence of silence intervals
\* within [0, duration], the speech segments returned are sorted and
\* non-overlapping, lie within [0, duration], are longer than 1 ms, meet no
\* silence interval, are maximal silence-free gaps, and every maximal
\* silence-free gap of [0, duration) longer than 1 ms is exactly one of
\* them.
C26_SpeechIsComplement ==
    ~(pc = "speech") =>
        /\ SortedNonOverlapping(speech_segments)
        /\ \A k \in 1..Len(speech_segments) :
              /\ 0 <= speech_segments[k][1]
              /\ speech_segments[k][2] <= duration
              /\ speech_segments[k][2] - speech_segments[k][1] > EPSILON
              /\ \A i \in 1..Len(silences) :
                    ~Intersects(speech_segments[k], silences[i])
              /\ MaximalGap(speech_segments[k][1], speech_segments[k][2])
        /\ \A a \in 0..duration : \A b \in 0..duration :
              (MaximalGap(a, b) /\ b - a > EPSILON) =>
                  Cardinality({k \in 1..Len(speech_segments) :
                                  speech_segments[k] = <<a, b>>}) = 1

C26_Witness ==
    /\ ~(pc = "speech")
    /\ Len(silences) = 2
    /\ silences[1][1] = 1
    /\ silences[2][1] - silences[1][2] = 2
    /\ duration - silences[2][2] = 1
    /\ speech_segments = <<<<silences[1][2], silences[2][1]>>>>

-----------------------------------------------------------------------------
(* Properties of a run with detection disabled, checked under SpecSplit *)

SplitDone == ~(pc = "split")

Contiguous(segs) == \A i \in 1..(Len(segs) - 1) : segs[i][2] = segs[i + 1][1]

SplitFitsUnchanged ==
    /\ ~(pc \in {"merge", "trim", "failed"})
    /\ pc = "export" => fitted = segments

\* C29 as stated: _split_evenly returns exactly N segments that start at
\* 0, are contiguous and end at D, and the fitter returns them unchanged
\* without raising.
C29_SplitEndsAtDuration ==
    SplitDone =>
        /\ Len(segments) = target
        /\ segments[1][1] = 0
        /\ Contiguous(segments)
        /\ 10 * segments[target][2] = duration
        /\ SplitFitsUnchanged

\* C29 (amended): _split_evenly returns exactly N segments that start at
\* 0, are contiguous and end at D rounded to five decimal places (within
\* 5 microseconds of D), and the fitter returns them unchanged without
\* raising.
C29_SplitEndsAtRoundedDuration ==
    SplitDone =>
        /\ Len(segments) = target
        /\ segments[1][1] = 0
        /\ Contiguous(segments)
        /\ 10 * segments[target][2] - duration \in -5..5
        /\ SplitFitsUnchanged

C29_Witness ==
    /\ pc = "export"
    /\ target = 3
    /\ duration = 1234567
    /\ segments = <<<<0, 41152>>, <<41152, 82304>>, <<82304, 123457>>>>
    /\ fitted = segments

====
